---- MODULE Spec2Model ----
(***************************************************************************)
(* Model of list_lib.c: a doubly linked list of heap-allocated strings.    *)
(* Nodes live in a heap indexed by allocation number; a pointer is NULL,   *)
(* a node's allocation number, or WILD (the indeterminate content of an    *)
(* uninitialised List object).  free() leaves the fields of the freed node *)
(* in place (stale) and is counted per node, so a double release and a     *)
(* read after release are both visible.                                    *)
(***************************************************************************)
EXTENDS Integers, Sequences, FiniteSets, TLC

\* ---- bounds -------------------------------------------------------------
MaxNodes == 3
MaxLen == 3

\* ---- pointers, error codes, payloads -------------------------------------
NULL == 0
WILD == -1
LIST == 100
TEST_DATA == 200

ALLOC_FAIL == 0
LEN_INVALID == 1
NULL_PTR == 2

NoRet == -9

NodeIds == 1..MaxNodes
Ptr == NodeIds \cup {NULL}
Strings == {"ABC0", "zzzz"}
NoStr == "?"

\* strcmp(a, b) == 0 exactly when the two strings have the same characters
strcmp(a, b) == IF a = b THEN 0 ELSE 1

\* ---- the memory as a record ---------------------------------------------
\* head, last    : the fields of the one List object
\* prev,next,data: the fields of every Node ever allocated
\* nallocs       : number of successful malloc(sizeof(Node)) so far
\* salloc        : nodes whose data string was successfully allocated
\* nfree, sfree  : how many times free(node) / free(node->data) was called
\* ub            : some step read or released memory it must not touch
\* a pointer that may be dereferenced: an allocated node not yet released
Live(m, p) == p \in 1..m.nallocs /\ m.nfree[p] = 0

\* free(node->data); free(node);
free_node(m, i) ==
  [m EXCEPT !.sfree[i] = @ + 1, !.nfree[i] = @ + 1,
            !.ub = @ \/ ~Live(m, i)]

\* insert_after without "node->next->prev = new_node"
insert_after_nobacklink(m, list, node, new_node) ==
  IF list = NULL \/ node = NULL \/ new_node = NULL
  THEN [m |-> m, ret |-> NULL_PTR]
  ELSE LET m1 == [m EXCEPT !.prev[new_node] = node]
           m2 == IF m1.next[node] = NULL
                 THEN [m1 EXCEPT !.next[new_node] = NULL, !.last = new_node]
                 ELSE [m1 EXCEPT !.next[new_node] = m1.next[node]]
           m3 == [m2 EXCEPT !.next[node] = new_node]
       IN [m |-> m3, ret |-> 0]

\* insert_after without "list->last = new_node"
insert_after_keeplast(m, list, node, new_node) ==
  IF list = NULL \/ node = NULL \/ new_node = NULL
  THEN [m |-> m, ret |-> NULL_PTR]
  ELSE LET m1 == [m EXCEPT !.prev[new_node] = node]
           m2 == IF m1.next[node] = NULL
                 THEN [m1 EXCEPT !.next[new_node] = NULL]
                 ELSE [m1 EXCEPT !.next[new_node] = m1.next[node],
                                 !.prev[m1.next[node]] = new_node]
           m3 == [m2 EXCEPT !.next[node] = new_node]
       IN [m |-> m3, ret |-> 0]

\* insert_after that sets "list->last = new_node" on both branches
insert_after_alwayslast(m, list, node, new_node) ==
  IF list = NULL \/ node = NULL \/ new_node = NULL
  THEN [m |-> m, ret |-> NULL_PTR]
  ELSE LET m1 == [m EXCEPT !.prev[new_node] = node, !.last = new_node]
           m2 == IF m1.next[node] = NULL
                 THEN [m1 EXCEPT !.next[new_node] = NULL]
                 ELSE [m1 EXCEPT !.next[new_node] = m1.next[node],
                                 !.prev[m1.next[node]] = new_node]
           m3 == [m2 EXCEPT !.next[node] = new_node]
       IN [m |-> m3, ret |-> 0]

\* ---- insert_after --------------------------------------------------------
insert_after(m, list, node, new_node) ==
  IF list = NULL \/ node = NULL \/ new_node = NULL
  THEN [m |-> m, ret |-> NULL_PTR]
  ELSE LET m1 == [m EXCEPT !.prev[new_node] = node]
           m2 == IF m1.next[node] = NULL
                 THEN [m1 EXCEPT !.next[new_node] = NULL, !.last = new_node]
                 ELSE [m1 EXCEPT !.next[new_node] = m1.next[node],
                                 !.prev[m1.next[node]] = new_node]
           m3 == [m2 EXCEPT !.next[node] = new_node]
       IN [m |-> m3, ret |-> 0]

\* insert_before without "node->prev->next = new_node"
insert_before_nofwdlink(m, list, node, new_node) ==
  IF list = NULL \/ node = NULL \/ new_node = NULL
  THEN [m |-> m, ret |-> NULL_PTR]
  ELSE LET m1 == [m EXCEPT !.next[new_node] = node]
           m2 == IF m1.prev[node] = NULL
                 THEN [m1 EXCEPT !.prev[new_node] = NULL, !.head = new_node]
                 ELSE [m1 EXCEPT !.prev[new_node] = m1.prev[node]]
           m3 == [m2 EXCEPT !.prev[node] = new_node]
       IN [m |-> m3, ret |-> 0]

\* insert_before that also rejects a reference node without predecessor
insert_before_strict(m, list, node, new_node) ==
  IF list = NULL \/ node = NULL \/ new_node = NULL
  THEN [m |-> m, ret |-> NULL_PTR]
  ELSE IF m.prev[node] = NULL
  THEN [m |-> m, ret |-> NULL_PTR]
  ELSE LET m1 == [m EXCEPT !.next[new_node] = node]
           m2 == [m1 EXCEPT !.prev[new_node] = m1.prev[node],
                            !.next[m1.prev[node]] = new_node]
           m3 == [m2 EXCEPT !.prev[node] = new_node]
       IN [m |-> m3, ret |-> 0]

\* ---- insert_before -------------------------------------------------------
insert_before(m, list, node, new_node) ==
  IF list = NULL \/ node = NULL \/ new_node = NULL
  THEN [m |-> m, ret |-> NULL_PTR]
  ELSE LET m1 == [m EXCEPT !.next[new_node] = node]
           m2 == IF m1.prev[node] = NULL
                 THEN [m1 EXCEPT !.prev[new_node] = NULL, !.head = new_node]
                 ELSE [m1 EXCEPT !.prev[new_node] = m1.prev[node],
                                 !.next[m1.prev[node]] = new_node]
           m3 == [m2 EXCEPT !.prev[node] = new_node]
       IN [m |-> m3, ret |-> 0]

\* insert_front that splices after the head of a non-empty list
insert_front_afterhead(m, list, new_node) ==
  IF list = NULL \/ new_node = NULL
  THEN [m |-> m, ret |-> NULL_PTR]
  ELSE IF m.head = NULL
       THEN [m |-> [m EXCEPT !.head = new_node, !.last = new_node,
                             !.prev[new_node] = NULL, !.next[new_node] = NULL],
             ret |-> 0]
       ELSE [m |-> insert_after(m, list, m.head, new_node).m, ret |-> 0]

\* ---- insert_front --------------------------------------------------------
insert_front(m, list, new_node) ==
  IF list = NULL \/ new_node = NULL
  THEN [m |-> m, ret |-> NULL_PTR]
  ELSE IF m.head = NULL
       THEN [m |-> [m EXCEPT !.head = new_node, !.last = new_node,
                             !.prev[new_node] = NULL, !.next[new_node] = NULL],
             ret |-> 0]
       ELSE [m |-> insert_before(m, list, m.head, new_node).m, ret |-> 0]

\* insert_end that always goes through insert_front
insert_end_atfront(m, list, new_node) ==
  IF list = NULL \/ new_node = NULL
  THEN [m |-> m, ret |-> NULL_PTR]
  ELSE [m |-> insert_front(m, list, new_node).m, ret |-> 0]

\* insert_end that splices before the last node of a non-empty list
insert_end_beforelast(m, list, new_node) ==
  IF list = NULL \/ new_node = NULL
  THEN [m |-> m, ret |-> NULL_PTR]
  ELSE IF m.last = NULL
       THEN [m |-> insert_front(m, list, new_node).m, ret |-> 0]
       ELSE [m |-> insert_before(m, list, m.last, new_node).m, ret |-> 0]

\* ---- insert_end ----------------------------------------------------------
insert_end(m, list, new_node) ==
  IF list = NULL \/ new_node = NULL
  THEN [m |-> m, ret |-> NULL_PTR]
  ELSE IF m.last = NULL
       THEN [m |-> insert_front(m, list, new_node).m, ret |-> 0]
       ELSE [m |-> insert_after(m, list, m.last, new_node).m, ret |-> 0]

\* remove_node without "list->last = node->prev"
remove_node_keeplast(m, list, node) ==
  IF list = NULL \/ node = NULL
  THEN [m |-> m, ret |-> NULL_PTR]
  ELSE LET m1 == IF m.prev[node] = NULL
                 THEN [m EXCEPT !.head = m.next[node]]
                 ELSE [m EXCEPT !.next[m.prev[node]] = m.next[node]]
           m2 == IF m1.next[node] = NULL
                 THEN m1
                 ELSE [m1 EXCEPT !.prev[m1.next[node]] = m1.prev[node]]
       IN [m |-> [m2 EXCEPT !.sfree[node] = @ + 1, !.nfree[node] = @ + 1],
           ret |-> 0]

\* remove_node without "list->head = node->next"
remove_node_keephead(m, list, node) ==
  IF list = NULL \/ node = NULL
  THEN [m |-> m, ret |-> NULL_PTR]
  ELSE LET m1 == IF m.prev[node] = NULL
                 THEN m
                 ELSE [m EXCEPT !.next[m.prev[node]] = m.next[node]]
           m2 == IF m1.next[node] = NULL
                 THEN [m1 EXCEPT !.last = m1.prev[node]]
                 ELSE [m1 EXCEPT !.prev[m1.next[node]] = m1.prev[node]]
       IN [m |-> [m2 EXCEPT !.sfree[node] = @ + 1, !.nfree[node] = @ + 1],
           ret |-> 0]

\* remove_node without "free(node->data)"
remove_node_leakstr(m, list, node) ==
  IF list = NULL \/ node = NULL
  THEN [m |-> m, ret |-> NULL_PTR]
  ELSE LET m1 == IF m.prev[node] = NULL
                 THEN [m EXCEPT !.head = m.next[node]]
                 ELSE [m EXCEPT !.next[m.prev[node]] = m.next[node]]
           m2 == IF m1.next[node] = NULL
                 THEN [m1 EXCEPT !.last = m1.prev[node]]
                 ELSE [m1 EXCEPT !.prev[m1.next[node]] = m1.prev[node]]
       IN [m |-> [m2 EXCEPT !.nfree[node] = @ + 1], ret |-> 0]

\* ---- remove_node ---------------------------------------------------------
remove_node(m, list, node) ==
  IF list = NULL \/ node = NULL
  THEN [m |-> m, ret |-> NULL_PTR]
  ELSE LET m1 == IF m.prev[node] = NULL
                 THEN [m EXCEPT !.head = m.next[node]]
                 ELSE [m EXCEPT !.next[m.prev[node]] = m.next[node]]
           m2 == IF m1.next[node] = NULL
                 THEN [m1 EXCEPT !.last = m1.prev[node]]
                 ELSE [m1 EXCEPT !.prev[m1.next[node]] = m1.prev[node]]
       IN [m |-> free_node(m2, node), ret |-> 0]

\* ---- find ----------------------------------------------------------------
RECURSIVE find_walk(_, _, _, _)
find_walk(m, i, data, fuel) ==
  IF i = NULL \/ fuel = 0 THEN NULL
  ELSE IF strcmp(m.data[i], data) = 0 THEN i
  ELSE find_walk(m, m.next[i], data, fuel - 1)

\* find that starts the walk at the node after the head
find_skiphead(m, list, data) ==
  IF list = NULL \/ data = NoStr THEN NULL
  ELSE IF m.head = NULL THEN NULL
  ELSE find_walk(m, m.next[m.head], data, MaxNodes + 1)

find(m, list, data) ==
  IF list = NULL \/ data = NoStr THEN NULL
  ELSE find_walk(m, m.head, data, MaxNodes + 1)

\* ---- make_node -----------------------------------------------------------
\* fail = "node": the first malloc returns NULL; fail = "str": the second
\* does; the heap holds MaxNodes nodes, after which malloc returns NULL.
make_node(m, data, fail) ==
  IF fail = "node" \/ m.nallocs >= MaxNodes
  THEN [m |-> m, p |-> NULL]
  ELSE LET id == m.nallocs + 1
           m1 == [m EXCEPT !.nallocs = id]
       IN IF fail = "str"
          THEN [m |-> [m1 EXCEPT !.nfree[id] = @ + 1], p |-> NULL]
          ELSE [m |-> [m1 EXCEPT !.salloc = @ \cup {id},
                                 !.next[id] = NULL, !.prev[id] = NULL,
                                 !.data[id] = data],
                p |-> id]

\* ---- dealloc_list --------------------------------------------------------
\* Reading i->next of a released node and releasing it again are undefined:
\* the build either goes on with the stale fields or the process dies there;
\* survive is the number of such steps it gets through before it dies.
RECURSIVE dealloc_walk(_, _, _, _)
dealloc_walk(m, i, fuel, survive) ==
  IF i = NULL \/ fuel = 0 THEN m
  ELSE IF i \notin NodeIds THEN [m EXCEPT !.ub = TRUE]
  ELSE IF ~Live(m, i) /\ survive = 0 THEN [m EXCEPT !.ub = TRUE]
  ELSE LET tmp == m.next[i]
       IN dealloc_walk(free_node(m, i), tmp, fuel - 1,
                       IF Live(m, i) THEN survive ELSE survive - 1)

\* dealloc_list that releases the head node only
dealloc_list_headonly(m, list, survive) ==
  IF list = NULL \/ m.head = NULL THEN m
  ELSE [m EXCEPT !.sfree[m.head] = @ + 1, !.nfree[m.head] = @ + 1]

\* dealloc_list whose loop runs "while (i->next != NULL)"
RECURSIVE dealloc_walk_skiplast(_, _, _)
dealloc_walk_skiplast(m, i, fuel) ==
  IF i = NULL \/ fuel = 0 THEN m
  ELSE IF m.next[i] = NULL THEN m
  ELSE dealloc_walk_skiplast(free_node(m, i), m.next[i], fuel - 1)

dealloc_list_skiplast(m, list, survive) ==
  IF list = NULL THEN m
  ELSE dealloc_walk_skiplast(m, m.head, MaxNodes + 1)

dealloc_list(m, list, survive) ==
  IF list = NULL THEN m
  ELSE dealloc_walk(m, m.head, MaxNodes + 1, survive)

\* ---- init_list -----------------------------------------------------------
\* data is [ptr, elems]: the pointer passed and the array it points to;
\* fail is [at, kind]: the index of the make_node call that fails (-1: none)
\* and which of its two malloc calls returns NULL.
RECURSIVE init_loop(_, _, _, _, _, _)
init_loop(m, list, data, data_len, i, fail) ==
  IF i >= data_len THEN [m |-> m, ret |-> 0, exit |-> "ok"]
  ELSE LET r == make_node(m, data.elems[i + 1],
                          IF fail.at = i THEN fail.kind ELSE "none")
       IN IF r.p = NULL
          THEN [m |-> dealloc_list(r.m, list, 0), ret |-> ALLOC_FAIL,
                exit |-> "alloc_fail"]
          ELSE init_loop(insert_end(r.m, list, r.p).m, list, data, data_len,
                         i + 1, fail)

\* init_list that empties the list before it looks at data and data_len
init_list_writesfirst(m, list, data, data_len, fail) ==
  LET m0 == [m EXCEPT !.head = NULL, !.last = NULL]
  IN IF data.ptr = NULL
     THEN [m |-> m0, ret |-> NULL_PTR, exit |-> "null_ptr"]
     ELSE IF data_len < 0
     THEN [m |-> m0, ret |-> LEN_INVALID, exit |-> "len_invalid"]
     ELSE init_loop(m0, list, data, data_len, 0, fail)

init_list(m, list, data, data_len, fail) ==
  IF data.ptr = NULL
  THEN [m |-> m, ret |-> NULL_PTR, exit |-> "null_ptr"]
  ELSE IF data_len < 0
  THEN [m |-> m, ret |-> LEN_INVALID, exit |-> "len_invalid"]
  ELSE IF list = NULL
  THEN [m |-> [m EXCEPT !.ub = TRUE], ret |-> NoRet, exit |-> "ub"]
  ELSE init_loop([m EXCEPT !.head = NULL, !.last = NULL],
                 list, data, data_len, 0, fail)

\* ---- program state ------------------------------------------------------
VARIABLES head, last, prev, next, data, nallocs, salloc, nfree, sfree, ub,
          new_node, init_ret, ret, call, pc

vars == <<head, last, prev, next, data, nallocs, salloc, nfree, sfree, ub,
          new_node, init_ret, ret, call, pc>>

Mem ==
  [head |-> head, last |-> last, prev |-> prev, next |-> next, data |-> data,
   nallocs |-> nallocs, salloc |-> salloc, nfree |-> nfree, sfree |-> sfree,
   ub |-> ub]

Store(m) ==
  /\ head' = m.head /\ last' = m.last
  /\ prev' = m.prev /\ next' = m.next /\ data' = m.data
  /\ nallocs' = m.nallocs /\ salloc' = m.salloc
  /\ nfree' = m.nfree /\ sfree' = m.sfree
  /\ ub' = m.ub

\* the last call made: the operation, its arguments, and which allocation of
\* the call (if any) the allocator refused
NoFail == [at |-> -1, kind |-> "none"]

Call(op, list, node, nn, dptr, elems, len, str, fail) ==
  [op |-> op, list |-> list, node |-> node, new_node |-> nn,
   dptr |-> dptr, elems |-> elems, len |-> len, str |-> str, fail |-> fail]

\* the nodes reached from p through f (next or prev), in visiting order
RECURSIVE Walk(_, _, _)
Walk(f, p, fuel) ==
  IF p \notin NodeIds \/ fuel = 0 THEN <<>>
  ELSE <<p>> \o Walk(f, f[p], fuel - 1)

Chain == Walk(next, head, MaxNodes + 1)
Members == {Chain[k] : k \in 1..Len(Chain)}

\* inputs of the calls
Arrays == UNION {[1..n -> Strings] : n \in 0..MaxLen}
Fails == {NoFail}
           \cup [at : 0..(MaxLen - 1), kind : {"node", "str"}]
ListArgs == {LIST, NULL}

\* List list;  -- an automatic object: its fields hold indeterminate values
Init ==
  /\ head \in {NULL, WILD} /\ last \in {NULL, WILD}
  /\ prev = [n \in NodeIds |-> NULL]
  /\ next = [n \in NodeIds |-> NULL]
  /\ data = [n \in NodeIds |-> NoStr]
  /\ nallocs = 0 /\ salloc = {}
  /\ nfree = [n \in NodeIds |-> 0]
  /\ sfree = [n \in NodeIds |-> 0]
  /\ ub = FALSE
  /\ new_node = NULL /\ init_ret = NoRet /\ ret = NoRet
  /\ call = Call("none", NULL, NULL, NULL, NULL, <<>>, 0, NoStr, NoFail)
  /\ pc = "start"

\* ---- one call of each operation, with its arguments --------------------
InitList(list, dptr, elems, len, fail) ==
  /\ pc = "start"
  /\ LET r == init_list(Mem, list, [ptr |-> dptr, elems |-> elems], len, fail)
     IN /\ Store(r.m)
        /\ IF r.exit = "ub"
           THEN /\ init_ret' \in {NoRet, ALLOC_FAIL, LEN_INVALID, NULL_PTR}
                /\ pc' = "undefined"
           ELSE /\ init_ret' = r.ret
                /\ pc' = IF r.exit = "ok" THEN "ready" ELSE "failed"
  /\ ret' = init_ret'
  /\ call' = Call("init_list", list, NULL, NULL, dptr, elems, len, NoStr, fail)
  /\ UNCHANGED new_node

\* the arguments a caller may choose for init_list
InitArgs(lists, dptrs) ==
  {a \in [list : lists, dptr : dptrs, elems : Arrays,
          len : -1..MaxLen, fail : Fails] :
     /\ a.len <= Len(a.elems)
     /\ a.dptr = NULL => a.elems = <<>>
     /\ a.fail.at < a.len \/ a.fail.at = -1}

MakeNode(str, fail) ==
  /\ pc = "ready"
  /\ new_node = NULL
  /\ LET r == make_node(Mem, str, fail)
     IN /\ Store(r.m)
        /\ new_node' = r.p
        /\ ret' = r.p
  /\ call' = Call("make_node", NULL, NULL, NULL, NULL, <<>>, 0, str,
                  [at |-> 0, kind |-> fail])
  /\ UNCHANGED <<init_ret, pc>>

InsertAfter(list, node, nn) ==
  /\ pc = "ready"
  /\ LET r == insert_after(Mem, list, node, nn)
     IN /\ Store(r.m)
        /\ ret' = r.ret
        /\ new_node' = IF r.ret = 0 THEN NULL ELSE new_node
  /\ call' = Call("insert_after", list, node, nn, NULL, <<>>, 0, NoStr, NoFail)
  /\ UNCHANGED <<init_ret, pc>>

InsertBefore(list, node, nn) ==
  /\ pc = "ready"
  /\ LET r == insert_before(Mem, list, node, nn)
     IN /\ Store(r.m)
        /\ ret' = r.ret
        /\ new_node' = IF r.ret = 0 THEN NULL ELSE new_node
  /\ call' = Call("insert_before", list, node, nn, NULL, <<>>, 0, NoStr, NoFail)
  /\ UNCHANGED <<init_ret, pc>>

InsertFront(list, nn) ==
  /\ pc = "ready"
  /\ LET r == insert_front(Mem, list, nn)
     IN /\ Store(r.m)
        /\ ret' = r.ret
        /\ new_node' = IF r.ret = 0 THEN NULL ELSE new_node
  /\ call' = Call("insert_front", list, NULL, nn, NULL, <<>>, 0, NoStr, NoFail)
  /\ UNCHANGED <<init_ret, pc>>

InsertEnd(list, nn) ==
  /\ pc = "ready"
  /\ LET r == insert_end(Mem, list, nn)
     IN /\ Store(r.m)
        /\ ret' = r.ret
        /\ new_node' = IF r.ret = 0 THEN NULL ELSE new_node
  /\ call' = Call("insert_end", list, NULL, nn, NULL, <<>>, 0, NoStr, NoFail)
  /\ UNCHANGED <<init_ret, pc>>

RemoveNode(list, node) ==
  /\ pc = "ready"
  /\ LET r == remove_node(Mem, list, node)
     IN /\ Store(r.m)
        /\ ret' = r.ret
  /\ call' = Call("remove_node", list, node, NULL, NULL, <<>>, 0, NoStr, NoFail)
  /\ UNCHANGED <<new_node, init_ret, pc>>

Find(list, str) ==
  /\ pc = "ready"
  /\ ret' = find(Mem, list, str)
  /\ call' = Call("find", list, NULL, NULL, NULL, <<>>, 0, str, NoFail)
  /\ UNCHANGED <<head, last, prev, next, data, nallocs, salloc, nfree, sfree,
                 ub, new_node, init_ret, pc>>

\* the nodes of the chain that were already released
Stale == Cardinality({n \in Members : ~Live(Mem, n)})

DeallocList(list, survive) ==
  /\ pc \in {"ready", "failed"}
  /\ LET m == dealloc_list(Mem, list, survive)
     IN /\ Store(m)
        /\ pc' = IF m.ub THEN "undefined"
                 ELSE IF list = NULL THEN pc ELSE "done"
  /\ ret' = NoRet
  /\ call' = Call("dealloc_list", list, NULL, NULL, NULL, <<>>, 0, NoStr, NoFail)
  /\ UNCHANGED <<new_node, init_ret>>

\* ---- the calls of a caller that keeps the preconditions ------------------
\* List list; init_list(&list, data, data_len);
DoInitList ==
  \E a \in InitArgs({LIST}, {TEST_DATA, NULL}) :
    InitList(a.list, a.dptr, a.elems, a.len, a.fail)

DoMakeNode ==
  \E str \in Strings, fail \in {"none", "node", "str"} : MakeNode(str, fail)

DoInsertAfter ==
  /\ new_node # NULL
  /\ \E node \in Members : InsertAfter(LIST, node, new_node)

DoInsertBefore ==
  /\ new_node # NULL
  /\ \E node \in Members : InsertBefore(LIST, node, new_node)

DoInsertFront ==
  /\ new_node # NULL
  /\ InsertFront(LIST, new_node)

DoInsertEnd ==
  /\ new_node # NULL
  /\ InsertEnd(LIST, new_node)

DoRemoveNode ==
  \E node \in Members : RemoveNode(LIST, node)

DoFind ==
  \E str \in Strings : Find(LIST, str)

\* if (init_ret == 0) dealloc_list(&list);
DoDeallocList ==
  /\ init_ret = 0
  /\ \E survive \in 0..Stale : DeallocList(LIST, survive)

Next ==
  \/ DoInitList
  \/ DoMakeNode
  \/ DoInsertAfter
  \/ DoInsertBefore
  \/ DoInsertFront
  \/ DoInsertEnd
  \/ DoRemoveNode
  \/ DoFind
  \/ DoDeallocList

Spec == Init /\ [][Next]_vars

\* ---- the calls that pass an absent (NULL) reference ----------------------
NullInitList ==
  \E a \in InitArgs({NULL}, {TEST_DATA, NULL}) :
    InitList(a.list, a.dptr, a.elems, a.len, a.fail)

NullInsertAfter ==
  \E list \in ListArgs, node \in Members \cup {NULL}, nn \in {new_node, NULL} :
    /\ NULL \in {list, node, nn}
    /\ InsertAfter(list, node, nn)

NullInsertBefore ==
  \E list \in ListArgs, node \in Members \cup {NULL}, nn \in {new_node, NULL} :
    /\ NULL \in {list, node, nn}
    /\ InsertBefore(list, node, nn)

NullInsertFront ==
  \E list \in ListArgs, nn \in {new_node, NULL} :
    /\ NULL \in {list, nn}
    /\ InsertFront(list, nn)

NullInsertEnd ==
  \E list \in ListArgs, nn \in {new_node, NULL} :
    /\ NULL \in {list, nn}
    /\ InsertEnd(list, nn)

NullRemoveNode ==
  \E list \in ListArgs, node \in Members \cup {NULL} :
    /\ NULL \in {list, node}
    /\ RemoveNode(list, node)

NullFind ==
  \E list \in ListArgs, str \in Strings \cup {NoStr} :
    /\ list = NULL \/ str = NoStr
    /\ Find(list, str)

NullDeallocList == DeallocList(NULL, 0)

NextArgs ==
  \/ Next
  \/ NullInitList
  \/ NullInsertAfter
  \/ NullInsertBefore
  \/ NullInsertFront
  \/ NullInsertEnd
  \/ NullRemoveNode
  \/ NullFind
  \/ NullDeallocList

SpecArgs == Init /\ [][NextArgs]_vars

\* ---- well-formedness of the chain ----------------------------------------
Back == Walk(prev, last, MaxNodes + 1)

Reverse(s) == [k \in 1..Len(s) |-> s[Len(s) + 1 - k]]

NoDup(s) == \A j, k \in 1..Len(s) : j # k => s[j] # s[k]

\* the nodes the list owns: allocated, not released, and not the unattached
\* node the caller still holds
Elements == {n \in 1..nallocs : nfree[n] = 0 /\ n # new_node}

\* the payloads read from head to tail
Payloads == [k \in 1..Len(Chain) |-> data[Chain[k]]]

WellFormed ==
  /\ head \in Ptr /\ last \in Ptr
  /\ Len(Chain) <= MaxNodes
  /\ NoDup(Chain)
  /\ Members = Elements
  /\ Chain # <<>> => Chain[Len(Chain)] = last /\ next[last] = NULL
  /\ Back = Reverse(Chain)
  /\ Back # <<>> => Back[Len(Back)] = head /\ prev[head] = NULL
  /\ \A n \in Members : next[n] # NULL => prev[next[n]] = n
  /\ \A n \in Members : prev[n] # NULL => next[prev[n]] = n

\* C1: after a successful init_list and any sequence of valid insert_front,
\* insert_end, insert_after, insert_before and remove_node calls the chain is
\* acyclic and bidirectionally consistent: next from head visits every element
\* once and ends at last, prev from last visits them in reverse and ends at
\* head, neighbours point at each other, and no node appears twice.
C1_ChainConsistent == pc = "ready" => WellFormed

\* a node was spliced into the middle of a chain of two
C1_Witness ==
  /\ pc = "ready"
  /\ call.op \in {"insert_after", "insert_before"}
  /\ ret = 0
  /\ Len(Chain) = 3
  /\ call.new_node = Chain[2]

\* C2: in every state reached from a successful init_list by valid calls,
\* head is NULL iff last is NULL iff the list has no element.
C2_EmptyIff ==
  pc = "ready" =>
    /\ (head = NULL) <=> (last = NULL)
    /\ (head = NULL) <=> (Elements = {})

\* the sole element of a list was removed
C2_Witness ==
  /\ pc = "ready"
  /\ call.op = "remove_node"
  /\ nallocs > 0
  /\ Elements = {}
  /\ head = NULL

\* C3: for a present input sequence and a count n >= 0, when no allocation
\* fails init_list returns 0 and the list holds exactly n elements whose data,
\* head to tail, are the first n input strings in input order.
C3_InitBuildsPrefix ==
  (/\ call.op = "init_list" /\ call.list # NULL /\ call.dptr # NULL
   /\ call.len >= 0 /\ call.fail.kind = "none")
    => /\ init_ret = 0
       /\ pc = "ready"
       /\ WellFormed
       /\ Payloads = SubSeq(call.elems, 1, call.len)

\* two of three input strings were consumed
C3_Witness ==
  /\ call.op = "init_list" /\ call.len = 2 /\ Len(call.elems) = 3
  /\ call.elems[1] # call.elems[2]
  /\ call.fail.kind = "none"
  /\ init_ret = 0 /\ Len(Chain) = 2

\* the last call was init_list with valid arguments and a refused allocation
InitAllocFailed ==
  /\ call.op = "init_list" /\ call.list # NULL /\ call.dptr # NULL
  /\ call.len >= 0 /\ call.fail.kind # "none"

\* C4: every failure value init_list returns differs from the success
\* indicator 0 (and the three failure values differ from one another).
C4_FailureIsNotSuccess ==
  /\ Cardinality({ALLOC_FAIL, LEN_INVALID, NULL_PTR}) = 3
  /\ pc = "failed" => init_ret # 0

\* C5: when the allocation of the k-th node fails, init_list fails with
\* AllocationFailure and has released each of the k nodes built before, and
\* each of their strings, exactly once: nothing it allocated is outstanding.
C5_RollbackReleasesAll ==
  InitAllocFailed =>
    /\ init_ret = ALLOC_FAIL
    /\ pc = "failed"
    /\ salloc = 1..call.fail.at
    /\ nallocs = call.fail.at + (IF call.fail.kind = "str" THEN 1 ELSE 0)
    /\ \A n \in 1..nallocs : nfree[n] = 1
    /\ \A n \in NodeIds : sfree[n] = IF n \in salloc THEN 1 ELSE 0
    /\ ~ub

\* the third allocation failed after two nodes had been built
C5_Witness ==
  /\ InitAllocFailed
  /\ call.fail.at = 2
  /\ nfree[1] = 1 /\ nfree[2] = 1

\* C6: after init_list fails on an allocation, neither head nor last
\* references a node that was created (and released) during that call.
C6_NoDanglingAfterRollback ==
  InitAllocFailed => head \notin 1..nallocs /\ last \notin 1..nallocs

\* the memory init_list may touch
memvars == <<head, last, prev, next, data, nallocs, salloc, nfree, sfree, ub>>

\* C7: init_list with an absent input sequence fails with NullArgument, and
\* with a present sequence and a negative count fails with InvalidLength; in
\* both cases nothing is allocated and the list argument is not written.
C7_InitRejectsBadInput ==
  [][(call'.op = "init_list" /\ (call'.dptr = NULL \/ call'.len < 0))
       => /\ init_ret' = IF call'.dptr = NULL THEN NULL_PTR ELSE LEN_INVALID
          /\ pc' = "failed"
          /\ UNCHANGED memvars]_vars

\* a negative count was rejected and the indeterminate list left as it was
C7_Witness ==
  /\ call.op = "init_list" /\ call.dptr # NULL /\ call.len < 0
  /\ init_ret = LEN_INVALID
  /\ head = WILD /\ last = WILD /\ nallocs = 0

\* the last call passed NULL for a reference the operation requires
AbsentArg(c) ==
  \/ c.op \in {"init_list", "insert_after", "insert_before", "insert_front",
               "insert_end", "remove_node", "find"} /\ c.list = NULL
  \/ c.op = "init_list" /\ c.dptr = NULL
  \/ c.op \in {"insert_after", "insert_before", "remove_node"} /\ c.node = NULL
  \/ c.op \in {"insert_after", "insert_before", "insert_front", "insert_end"}
       /\ c.new_node = NULL
  \/ c.op = "find" /\ c.str = NoStr

\* C8: every public operation checks each required reference at entry,
\* init_list's list argument included, and reports NullArgument (find:
\* not found) before touching the list or any node, leaving all unchanged.
C8_AbsentArgRejected ==
  [][AbsentArg(call')
       => /\ ret' = IF call'.op = "find" THEN NULL ELSE NULL_PTR
          /\ UNCHANGED memvars]_vars

\* C9: insert_after(list, x, y) with x a member and y unattached gives
\* x.next == y and y.prev == x; if x was not last, y.next is x's former
\* successor, y.next.prev == y and last is unchanged; if x was last, y.next
\* is absent and last == y.
C9_InsertAfterLinks ==
  [][(call'.op = "insert_after" /\ call'.list # NULL /\ call'.node # NULL
      /\ call'.new_node # NULL)
       => LET x == call'.node
              y == call'.new_node
          IN /\ x \in Members /\ y \notin Members
             /\ next'[x] = y /\ prev'[y] = x
             /\ IF last # x
                THEN /\ next'[y] = next[x] /\ next[x] # NULL
                     /\ prev'[next'[y]] = y
                     /\ last' = last
                ELSE /\ next'[y] = NULL
                     /\ last' = y]_vars

\* a node was inserted after a node that was not the last one
C9_Witness ==
  /\ call.op = "insert_after" /\ ret = 0
  /\ next[call.node] = call.new_node
  /\ last # call.new_node
  /\ Len(Chain) = 3

\* C10: insert_before(list, x, y) with x a member and y unattached gives
\* x.prev == y and y.next == x; if x was the head, y.prev is absent and
\* head == y; otherwise y.prev is x's former predecessor, whose next is y,
\* and head is unchanged.
C10_InsertBeforeLinks ==
  [][(call'.op = "insert_before" /\ call'.list # NULL /\ call'.node # NULL
      /\ call'.new_node # NULL)
       => LET x == call'.node
              y == call'.new_node
          IN /\ x \in Members /\ y \notin Members
             /\ prev'[x] = y /\ next'[y] = x
             /\ IF head = x
                THEN /\ prev'[y] = NULL
                     /\ head' = y
                ELSE /\ prev'[y] = prev[x] /\ prev[x] # NULL
                     /\ next'[prev[x]] = y
                     /\ head' = head]_vars

\* a node was inserted before an inner node of the chain
C10_Witness ==
  /\ call.op = "insert_before" /\ ret = 0
  /\ prev[call.node] = call.new_node
  /\ head # call.new_node
  /\ Len(Chain) = 3

\* C11: for every well-formed list, empty or not, and unattached node y with
\* value v: after insert_front the data of head is v and the previous
\* elements follow in their previous order; after insert_end the data of
\* last is v and the previous elements precede it in their previous order.
C11_FrontEndPlacement ==
  [][(call'.op \in {"insert_front", "insert_end"} /\ call'.list # NULL
      /\ call'.new_node # NULL)
       => LET y == call'.new_node
              v == data[y]
          IN IF call'.op = "insert_front"
             THEN /\ head' = y /\ data'[head'] = v
                  /\ Chain' = <<y>> \o Chain
                  /\ Payloads' = <<v>> \o Payloads
             ELSE /\ last' = y /\ data'[last'] = v
                  /\ Chain' = Chain \o <<y>>
                  /\ Payloads' = Payloads \o <<v>>]_vars

\* a value was put in front of two elements, the first of which differs
C11_Witness ==
  /\ call.op = "insert_front" /\ ret = 0
  /\ head = call.new_node
  /\ Len(Chain) = 3
  /\ data[Chain[1]] # data[Chain[2]]

\* the sequence s without its entries equal to x
RECURSIVE Without(_, _)
Without(s, x) ==
  IF s = <<>> THEN <<>>
  ELSE IF Head(s) = x THEN Without(Tail(s), x)
  ELSE <<Head(s)>> \o Without(Tail(s), x)

\* C12: remove_node(list, x) of a member x decreases the element count by
\* one, releases x and its string exactly once, leaves x unreachable from
\* head and last, keeps the other elements in their order with the chain
\* invariants holding, and leaves head and last absent when x was alone.
C12_RemoveDetachesAndReleases ==
  [][(call'.op = "remove_node" /\ call'.list # NULL /\ call'.node # NULL)
       => LET x == call'.node
          IN /\ x \in Members
             /\ Cardinality(Elements') = Cardinality(Elements) - 1
             /\ nfree' = [nfree EXCEPT ![x] = 1]
             /\ sfree' = [sfree EXCEPT ![x] = 1]
             /\ nfree[x] = 0 /\ sfree[x] = 0
             /\ x \notin Members'
             /\ \A k \in 1..Len(Back') : Back'[k] # x
             /\ Chain' = Without(Chain, x)
             /\ data' = data
             /\ WellFormed'
             /\ Chain = <<x>> => head' = NULL /\ last' = NULL]_vars

\* the middle one of three elements was removed
C12_Witness ==
  /\ call.op = "remove_node" /\ ret = 0
  /\ Len(Chain) = 2
  /\ nfree[call.node] = 1 /\ sfree[call.node] = 1
  /\ prev[call.node] = Chain[1] /\ next[call.node] = Chain[2]

\* the positions of the chain whose node holds the string str
Hits(str) == {k \in 1..Len(Chain) : data[Chain[k]] = str}

\* the least element of a non-empty set of numbers
Least(S) == CHOOSE k \in S : \A j \in S : k <= j

\* C13: for a well-formed list and a present target, find returns the member
\* node itself that is earliest, head to tail, among the nodes whose data
\* equals the target, and not-found exactly when no node's data equals it.
C13_FindEarliestMatch ==
  (/\ pc = "ready" /\ call.op = "find" /\ call.list # NULL
   /\ call.str # NoStr)
    => IF Hits(call.str) = {}
       THEN ret = NULL
       ELSE /\ ret = Chain[Least(Hits(call.str))]
            /\ ret \in Members

\* the target is held by the second and the third node, not by the head
C13_Witness ==
  /\ call.op = "find"
  /\ Len(Chain) = 3
  /\ Hits(call.str) = {2, 3}
  /\ ret = Chain[2]

\* ---- the round trip of test_remove_node_middle / test_find_middle ---------
\* init_list from pairwise distinct strings, find a value, remove the node
\* found, find again
TestStrings == {"ABC0", "ABC1", "ABC2", "ABC3"}

DistinctArrays ==
  {a \in UNION {[1..n -> TestStrings] : n \in 0..MaxLen} :
     \A j, k \in 1..Len(a) : j # k => a[j] # a[k]}

RtInitList ==
  \E elems \in DistinctArrays :
    InitList(LIST, TEST_DATA, elems, Len(elems), NoFail)

RtFind ==
  \E str \in TestStrings : Find(LIST, str)

RtRemoveFound ==
  /\ call.op = "find"
  /\ ret # NULL
  /\ RemoveNode(LIST, ret)

NextRoundTrip ==
  \/ RtInitList
  \/ RtFind
  \/ RtRemoveFound

SpecRoundTrip == Init /\ [][NextRoundTrip]_vars

\* C14: for a list built by init_list from pairwise distinct strings and a
\* value v in it, removing the node returned by find(v) and calling find(v)
\* again reports not-found, and the other elements keep their order.
C14_RoundTrip ==
  [][/\ call'.op = "remove_node"
          => /\ call.op = "find" /\ call'.node = ret
             /\ data[ret] = call.str
             /\ Payloads' = Without(Payloads, call.str)
             /\ Len(Payloads') = Len(Payloads) - 1
     /\ (call.op = "remove_node" /\ call'.op = "find"
         /\ call'.str = data[call.node])
          => ret' = NULL]_vars

\* the middle of three distinct values was found, removed and sought again
C14_Witness ==
  /\ call.op = "find" /\ ret = NULL
  /\ Len(Chain) = 2
  /\ \E n \in NodeIds :
       /\ nfree[n] = 1 /\ data[n] = call.str
       /\ prev[n] = Chain[1] /\ next[n] = Chain[2]

\* C15: when dealloc_list returns for a present list (empty or not), the
\* list's head and last are both absent.
C15_DeallocClearsList ==
  (call.op = "dealloc_list" /\ call.list # NULL /\ pc = "done")
    => head = NULL /\ last = NULL

\* ---- teardown, with dealloc_list(NULL) among the calls -------------------
NextTeardown ==
  \/ Next
  \/ NullDeallocList

SpecTeardown == Init /\ [][NextTeardown]_vars

\* C16: dealloc_list on a well-formed list of n elements releases exactly
\* its n nodes and n strings, each once, reads no node after releasing it
\* and terminates; dealloc_list on an absent list is a no-op.
C16_DeallocReleasesEachOnce ==
  [][/\ (call'.op = "dealloc_list" /\ call'.list = NULL)
          => UNCHANGED <<memvars, new_node, init_ret, pc>>
     /\ (call'.op = "dealloc_list" /\ call'.list # NULL /\ pc = "ready")
          => /\ nfree' = [n \in NodeIds |->
                            IF n \in Members THEN 1 ELSE nfree[n]]
             /\ sfree' = [n \in NodeIds |->
                            IF n \in Members THEN 1 ELSE sfree[n]]
             /\ \A n \in Members : nfree[n] = 0 /\ sfree[n] = 0
             /\ Cardinality({n \in NodeIds : nfree'[n] # nfree[n]})
                  = Len(Chain)
             /\ nallocs' = nallocs /\ salloc' = salloc
             /\ ~ub'
             /\ pc' = "done"]_vars

\* a list that had seen an insert and a remove was torn down
C16_Witness ==
  /\ call.op = "dealloc_list" /\ call.list # NULL /\ pc = "done"
  /\ nallocs = 3
  /\ \A n \in 1..3 : nfree[n] = 1 /\ sfree[n] = 1
  /\ Len(Chain) = 2
  /\ init_ret = 0 /\ ~ub

\* the last call was an insert or a remove whose references were all present
PresentArgs(c) ==
  /\ c.op \in {"insert_after", "insert_before", "insert_front", "insert_end",
               "remove_node"}
  /\ c.list # NULL
  /\ c.op \in {"insert_after", "insert_before", "remove_node"}
       => c.node # NULL
  /\ c.op \in {"insert_after", "insert_before", "insert_front", "insert_end"}
       => c.new_node # NULL

\* C17: every call of insert_after, insert_before, insert_front, insert_end
\* or remove_node whose list, reference-node and new-node arguments are all
\* present returns 0, for a reference node at the head, middle or end.
C17_PresentArgsReturnZero == PresentArgs(call) => ret = 0

\* a node was inserted before the head of a list of two
C17_Witness ==
  /\ call.op = "insert_before" /\ PresentArgs(call) /\ ret = 0
  /\ head = call.new_node
  /\ Len(Chain) = 3

\* what no insert may touch: payloads and the allocation bookkeeping
heapvars == <<data, nallocs, salloc, nfree, sfree, ub>>

\* C18: a successful insert_after / insert_before changes only the two links
\* of the new node, the link of the reference node that faces it, the facing
\* link of the reference node's former neighbour on that side, and head or
\* last only when the reference node was that boundary; every other link,
\* the other boundary pointer and all data stay; find changes nothing.
C18_InsertFrame ==
  [][/\ (call'.op = "insert_after" /\ PresentArgs(call'))
          => LET x == call'.node
                 y == call'.new_node
                 s == next[x]
             IN /\ \A n \in NodeIds \ {y} :
                     /\ n # x => next'[n] = next[n]
                     /\ n # s => prev'[n] = prev[n]
                /\ head' = head
                /\ last # x => last' = last
                /\ UNCHANGED heapvars
     /\ (call'.op = "insert_before" /\ PresentArgs(call'))
          => LET x == call'.node
                 y == call'.new_node
                 p == prev[x]
             IN /\ \A n \in NodeIds \ {y} :
                     /\ n # x => prev'[n] = prev[n]
                     /\ n # p => next'[n] = next[n]
                /\ last' = last
                /\ head # x => head' = head
                /\ UNCHANGED heapvars
     /\ call'.op = "find" => UNCHANGED <<memvars, new_node, init_ret, pc>>
    ]_vars

\* a node was appended after the last of two: the first node is untouched
C18_Witness ==
  /\ call.op = "insert_after" /\ ret = 0
  /\ Len(Chain) = 3
  /\ Chain[3] = call.new_node
  /\ Chain[2] = call.node

\* C19: on an empty list insert_end and insert_front give the same state
\* (head == last == y, both links of y absent); on a non-empty list
\* insert_front gives the state of insert_before(list, head, y) and
\* insert_end the state of insert_after(list, last, y).
C19_Delegation ==
  [][/\ (call'.op = "insert_front" /\ PresentArgs(call'))
          => LET y == call'.new_node
             IN IF Elements = {}
                THEN /\ Mem' = insert_end(Mem, LIST, y).m
                     /\ head' = y /\ last' = y
                     /\ prev'[y] = NULL /\ next'[y] = NULL
                ELSE Mem' = insert_before(Mem, LIST, head, y).m
     /\ (call'.op = "insert_end" /\ PresentArgs(call'))
          => LET y == call'.new_node
             IN IF Elements = {}
                THEN /\ Mem' = insert_front(Mem, LIST, y).m
                     /\ head' = y /\ last' = y
                     /\ prev'[y] = NULL /\ next'[y] = NULL
                ELSE Mem' = insert_after(Mem, LIST, last, y).m
    ]_vars

\* insert_end put a node into an empty list
C19_Witness ==
  /\ call.op = "insert_end" /\ ret = 0
  /\ Chain = <<call.new_node>>
  /\ head = call.new_node /\ last = call.new_node

\* ---- the harness pattern of test_init_list_success -----------------------
\* int init_ret = init_list(&list, data, n);
\* if (init_ret == 0) dealloc_list(&list);
NextHarness ==
  \/ DoInitList
  \/ DoDeallocList

SpecHarness == Init /\ [][NextHarness]_vars

\* the harness has made its last call
HarnessDone == pc = "done" \/ (pc = "failed" /\ init_ret # 0)

\* C20: a caller that calls init_list once and then dealloc_list exactly
\* when init_list returned 0 never releases a node or string twice and never
\* leaks a node, for every count and every point of allocation failure.
C20_HarnessReleasesOnce ==
  /\ \A n \in NodeIds : nfree[n] <= 1 /\ sfree[n] <= 1
  /\ HarnessDone
       => \A n \in 1..nallocs : nfree[n] = 1 /\ (n \in salloc => sfree[n] = 1)

====
